---- MODULE Spec2Model ----
(***************************************************************************)
(* Model of table/tablecolumnresize/utils: the column width normaliser,    *)
(* clamp(), getAffectedTables() and insertColumnResizerElement().          *)
(*                                                                         *)
(* Numbers.  A JavaScript number is modelled as an integer counting units  *)
(* of 10^-(COLUMN_WIDTH_PRECISION+1) percent (one decimal digit finer than *)
(* the precision toPrecision() keeps), or as the value NaN.  Arithmetic is *)
(* exact; toPrecision() rounds to a multiple of Step, half up, as          *)
(* Math.round does.                                                        *)
(***************************************************************************)
EXTENDS Integers, Sequences, FiniteSets, TLC

VARIABLES
    phase,                  \* position of the caller: which call has returned
    widthsAttribute,        \* the raw 'columnWidths' list handed to normalizeColumnWidths
    missing,                \* calculateMissingColumnWidths( widthsAttribute )
    normalized,             \* normalizeColumnWidths( widthsAttribute )
    renormalized,           \* normalizeColumnWidths( normalized.map( String ) )
    clampArgs,              \* [number, min, max] handed to clamp
    clampResult,            \* clamp( number, min, max )
    tablesWithWidths,       \* the tables of the document that carry 'columnWidths'
    changes,                \* the differ's batch of change records
    affectedTables,         \* getAffectedTables( changes, model )
    viewChildren,           \* view cell -> sequence of its children
    targeted                \* the cells insertColumnResizerElement was called on

normVars    == <<widthsAttribute, missing, normalized, renormalized>>
clampVars   == <<clampArgs, clampResult>>
tableVars   == <<tablesWithWidths, changes, affectedTables>>
resizerVars == <<viewChildren, targeted>>
vars        == <<phase, normVars, clampVars, tableVars, resizerVars>>

----------------------------------------------------------------------------
(* Bounds *)

MaxColumns == 4
MaxChanges == 2
NumCells   == 3

----------------------------------------------------------------------------
(* constants.js *)

COLUMN_WIDTH_PRECISION == 3

Multiplier == 10 ^ COLUMN_WIDTH_PRECISION

\* Units per percent, and units per step of the kept precision.
Scale == 10 * Multiplier
Step  == Scale \div Multiplier

Hundred == 100 * Scale

\* 0.1 percent
COLUMN_MIN_WIDTH_AS_PERCENTAGE == Scale \div 10

----------------------------------------------------------------------------
(* JavaScript numbers and strings *)

NaN == 0 - (2 ^ 30)

IsNaN(x) == x = NaN

Max(a, b) == IF a >= b THEN a ELSE b

\* a + b
Plus(a, b) == IF IsNaN(a) \/ IsNaN(b) THEN NaN ELSE a + b

\* a - b
Minus(a, b) == IF IsNaN(a) \/ IsNaN(b) THEN NaN ELSE a - b

\* A width string: the placeholder (possibly surrounded by white space), a
\* decimal numeral denoting num units, or the text "NaN".
AutoString       == [str |-> "auto", num |-> NaN]
PaddedAutoString == [str |-> " auto ", num |-> NaN]
NumberString(v)  == [str |-> "number", num |-> v]
NaNString        == [str |-> "NaN", num |-> NaN]

\* String.prototype.trim
trim(s) == IF s.str = " auto " THEN [s EXCEPT !.str = "auto"] ELSE s

\* parseFloat( string )
parseFloat(s) == IF s.str = "number" THEN s.num ELSE NaN

\* String( number )
toString(v) == IF IsNaN(v) THEN NaNString ELSE NumberString(v)

----------------------------------------------------------------------------
(* Precision and arithmetic utilities *)

\* Math.round( num / den * multiplier ) / multiplier for den > 0.
RoundQuotient(num, den) ==
    Step * ((2 * num + Step * den) \div (2 * Step * den))

\* toPrecision( value ) for a number.
toPrecision(value) ==
    IF IsNaN(value) THEN NaN ELSE RoundQuotient(value, 1)

\* <<quotient, remainder>> of ( q + r / den ) * 10^digits, den > 0, by long
\* division (keeps every intermediate value small).
RECURSIVE LongDivide(_, _, _, _)
LongDivide(q, r, den, digits) ==
    IF digits = 0
    THEN <<q, r>>
    ELSE LongDivide(q * 10 + ((r * 10) \div den), (r * 10) % den, den, digits - 1)

\* toPrecision( columnWidth * 100 / totalWidth )
Proportional(columnWidth, totalWidth) ==
    IF IsNaN(columnWidth) \/ IsNaN(totalWidth) THEN NaN
    ELSE IF totalWidth = 0 THEN NaN  \* 0 / 0; a non-zero width over 0 cannot occur for widths >= 0
    ELSE LET num == IF totalWidth < 0 THEN 0 - columnWidth ELSE columnWidth
             den == IF totalWidth < 0 THEN 0 - totalWidth ELSE totalWidth
             qr  == LongDivide(num \div den, num % den, den, COLUMN_WIDTH_PRECISION + 2)
         IN  Step * (IF 2 * qr[2] >= den THEN qr[1] + 1 ELSE qr[1])

clampUnrounded(number, min, max) ==
    IF number <= min THEN toPrecision(min)
    ELSE IF number >= max THEN toPrecision(max)
    ELSE number

clamp(number, min, max) ==
    IF number <= min THEN toPrecision(min)
    ELSE IF number >= max THEN toPrecision(max)
    ELSE toPrecision(number)

RECURSIVE SumFrom(_, _)
SumFrom(array, i) ==
    IF i > Len(array) THEN 0
    ELSE (IF IsNaN(array[i]) THEN 0 ELSE array[i]) + SumFrom(array, i + 1)

\* sumArray of an array of numbers.
sumArray(array) == SumFrom(array, 1)

\* sumArray of an array of strings: each is parsed, NaN is dropped.
sumStrings(array) == sumArray([i \in DOMAIN array |-> parseFloat(array[i])])

----------------------------------------------------------------------------
(* Width normaliser *)

calculateMissingColumnWidthsNoFloor(columnWidthsAttribute) ==
    LET columnWidths == [i \in DOMAIN columnWidthsAttribute |-> trim(columnWidthsAttribute[i])]
        numberOfUninitializedColumns ==
            Cardinality({i \in DOMAIN columnWidths : columnWidths[i].str = "auto"})
        totalWidthOfInitializedColumns == sumStrings(columnWidths)
    IN  IF numberOfUninitializedColumns = 0
        THEN [i \in DOMAIN columnWidths |-> toPrecision(parseFloat(columnWidths[i]))]
        ELSE [i \in DOMAIN columnWidths |->
                IF columnWidths[i].str = "auto"
                THEN RoundQuotient(Hundred - totalWidthOfInitializedColumns,
                                   numberOfUninitializedColumns)
                ELSE toPrecision(parseFloat(columnWidths[i]))]

calculateMissingColumnWidths(columnWidthsAttribute) ==
    LET columnWidths == [i \in DOMAIN columnWidthsAttribute |-> trim(columnWidthsAttribute[i])]
        numberOfUninitializedColumns ==
            Cardinality({i \in DOMAIN columnWidths : columnWidths[i].str = "auto"})
        totalWidthOfInitializedColumns == sumStrings(columnWidths)
        \* widthForUninitializedColumn is this numerator over numberOfUninitializedColumns
        widthNumerator ==
            Max(Hundred - totalWidthOfInitializedColumns,
                COLUMN_MIN_WIDTH_AS_PERCENTAGE * numberOfUninitializedColumns)
    IN  IF numberOfUninitializedColumns = 0
        THEN [i \in DOMAIN columnWidths |-> toPrecision(parseFloat(columnWidths[i]))]
        ELSE [i \in DOMAIN columnWidths |->
                IF columnWidths[i].str = "auto"
                THEN RoundQuotient(widthNumerator, numberOfUninitializedColumns)
                ELSE toPrecision(parseFloat(columnWidths[i]))]

\* The last map of normalizeColumnWidths, with the outer totalWidth used in
\* the correction instead of the re-summed one.
normalizeColumnWidthsOuterTotal(columnWidthsAttribute) ==
    LET columnWidths == calculateMissingColumnWidths(columnWidthsAttribute)
        totalWidth   == sumArray(columnWidths)
        scaled       == [i \in DOMAIN columnWidths |-> Proportional(columnWidths[i], totalWidth)]
    IN  IF totalWidth = Hundred
        THEN columnWidths
        ELSE [i \in DOMAIN scaled |->
                IF i # Len(scaled)
                THEN scaled[i]
                ELSE toPrecision(Minus(Plus(scaled[i], Hundred), totalWidth))]

\* The proportional map only: the last column is not corrected.
normalizeColumnWidthsNoCorrection(columnWidthsAttribute) ==
    LET columnWidths == calculateMissingColumnWidths(columnWidthsAttribute)
        totalWidth   == sumArray(columnWidths)
    IN  IF totalWidth = Hundred
        THEN columnWidths
        ELSE [i \in DOMAIN columnWidths |-> Proportional(columnWidths[i], totalWidth)]

\* The correction applied to the first column instead of the last.
normalizeColumnWidthsFirstColumn(columnWidthsAttribute) ==
    LET columnWidths == calculateMissingColumnWidths(columnWidthsAttribute)
        totalWidth   == sumArray(columnWidths)
        scaled       == [i \in DOMAIN columnWidths |-> Proportional(columnWidths[i], totalWidth)]
    IN  IF totalWidth = Hundred
        THEN columnWidths
        ELSE [i \in DOMAIN scaled |->
                IF i # 1
                THEN scaled[i]
                ELSE toPrecision(Minus(Plus(scaled[i], Hundred), sumArray(scaled)))]

normalizeColumnWidths(columnWidthsAttribute) ==
    LET columnWidths == calculateMissingColumnWidths(columnWidthsAttribute)
        totalWidth   == sumArray(columnWidths)
        scaled       == [i \in DOMAIN columnWidths |-> Proportional(columnWidths[i], totalWidth)]
    IN  IF totalWidth = Hundred
        THEN columnWidths
        ELSE [i \in DOMAIN scaled |->
                IF i # Len(scaled)
                THEN scaled[i]
                ELSE toPrecision(Minus(Plus(scaled[i], Hundred), sumArray(scaled)))]

\* Percentages written with up to COLUMN_WIDTH_PRECISION + 1 decimals:
\* 0, 0.0004, 0.0007, 25, 33.3333, 37, 90 and 100.
WidthNumerals == {0, 4, 7, 25 * Scale, 333333, 37 * Scale, 90 * Scale, Hundred}

RawWidths == {AutoString, PaddedAutoString} \cup {NumberString(v) : v \in WidthNumerals}

RawWidthLists == UNION {[1..n -> RawWidths] : n \in 1..MaxColumns}

NormIdle ==
    /\ widthsAttribute = <<>>
    /\ missing = <<>>
    /\ normalized = <<>>
    /\ renormalized = <<>>

InitNormalize ==
    /\ phase = "raw"
    /\ widthsAttribute \in RawWidthLists
    /\ missing = <<>>
    /\ normalized = <<>>
    /\ renormalized = <<>>

\* The caller normalises the attribute value.
Normalize ==
    /\ phase = "raw"
    /\ missing' = calculateMissingColumnWidths(widthsAttribute)
    /\ normalized' = normalizeColumnWidths(widthsAttribute)
    /\ phase' = "normalized"
    /\ UNCHANGED <<widthsAttribute, renormalized>>

\* The caller writes the result back as strings and normalises it again.
Renormalize ==
    /\ phase = "normalized"
    /\ renormalized' = normalizeColumnWidths([i \in DOMAIN normalized |-> toString(normalized[i])])
    /\ phase' = "renormalized"
    /\ UNCHANGED <<widthsAttribute, missing, normalized>>

----------------------------------------------------------------------------
(* clamp *)

\* 5, 10, 12.3454, 12.3456, 50, 90 and 95.
ClampNumbers == {5 * Scale, 10 * Scale, 123454, 123456, 50 * Scale, 90 * Scale, 95 * Scale}

ClampIdle ==
    /\ clampArgs = [number |-> 0, min |-> 0, max |-> 0]
    /\ clampResult = NaN

InitClamp ==
    /\ phase = "args"
    /\ clampArgs \in [number : ClampNumbers, min : ClampNumbers, max : ClampNumbers]
    /\ clampResult = NaN

Clamp ==
    /\ phase = "args"
    /\ clampResult' = clamp(clampArgs.number, clampArgs.min, clampArgs.max)
    /\ phase' = "clamped"
    /\ UNCHANGED clampArgs

----------------------------------------------------------------------------
(* Resizer marker *)

Cells == 1..NumCells

ResizerClass == "ck-table-column-resizer"

\* writer.createUIElement( 'div', { class: 'ck-table-column-resizer' } )
ResizerElement == [name |-> "div", classes |-> {ResizerClass}]

ContentElement == [name |-> "span", classes |-> {"ck-table-bogus-paragraph"}]

hasClass(viewElement, className) == className \in viewElement.classes

ResizerCount(children) ==
    Cardinality({i \in DOMAIN children : hasClass(children[i], ResizerClass)})

\* Looks at the first child only.
hasResizerFirstChild(children) ==
    children # <<>> /\ hasClass(children[1], ResizerClass)

\* [ ...viewCell.getChildren() ].find( viewElement => viewElement.hasClass( ... ) ) is found
hasResizer(children) ==
    \E i \in DOMAIN children : hasClass(children[i], ResizerClass)

\* The contents a cell can have before any call: at most one marker.
CellContents ==
    { <<>>, <<ContentElement>>, <<ResizerElement>>,
      <<ContentElement, ResizerElement>>, <<ResizerElement, ContentElement>> }

ResizerIdle ==
    /\ viewChildren = <<>>
    /\ targeted = {}

InitResizer ==
    /\ phase = "view"
    /\ viewChildren \in [Cells -> CellContents]
    /\ targeted = {}

insertColumnResizerElement(viewCell) ==
    /\ phase = "view"
    /\ viewChildren' =
           IF hasResizer(viewChildren[viewCell])
           THEN viewChildren
           ELSE [viewChildren EXCEPT ![viewCell] = Append(@, ResizerElement)]
    /\ targeted' = targeted \cup {viewCell}
    /\ UNCHANGED phase

InsertResizer == \E viewCell \in Cells : insertColumnResizerElement(viewCell)

----------------------------------------------------------------------------
(* Document model: an outer table T1 holding T2, which holds T3, and a     *)
(* separate table T4.                                                      *)

Tables == {"T1", "T2", "T3", "T4"}
Nodes  == {"root", "R1", "C1", "R2", "C2", "R3", "C3", "p3", "R4", "C4", "p4"} \cup Tables

Null == "null"

getChildren(node) ==
    CASE node = "root" -> <<"T1", "T4">>
      [] node = "T1" -> <<"R1">>
      [] node = "R1" -> <<"C1">>
      [] node = "C1" -> <<"T2">>
      [] node = "T2" -> <<"R2">>
      [] node = "R2" -> <<"C2">>
      [] node = "C2" -> <<"T3">>
      [] node = "T3" -> <<"R3">>
      [] node = "R3" -> <<"C3">>
      [] node = "C3" -> <<"p3">>
      [] node = "T4" -> <<"R4">>
      [] node = "R4" -> <<"C4">>
      [] node = "C4" -> <<"p4">>
      [] OTHER -> <<>>

nodeName(node) ==
    CASE node \in Tables -> "table"
      [] node \in {"R1", "R2", "R3", "R4"} -> "tableRow"
      [] node \in {"C1", "C2", "C3", "C4"} -> "tableCell"
      [] node \in {"p3", "p4"} -> "paragraph"
      [] OTHER -> "$root"

getParent(node) ==
    IF \E m \in Nodes : \E i \in DOMAIN getChildren(m) : getChildren(m)[i] = node
    THEN CHOOSE m \in Nodes : \E i \in DOMAIN getChildren(m) : getChildren(m)[i] = node
    ELSE Null

Positions == {[parent |-> n, offset |-> k] : n \in Nodes, k \in 0..1} \cup
             {[parent |-> "root", offset |-> 2]}

NullPosition == [parent |-> Null, offset |-> 0]

\* position.nodeAfter
nodeAfter(position) ==
    IF position.offset < Len(getChildren(position.parent))
    THEN getChildren(position.parent)[position.offset + 1]
    ELSE Null

\* element.findAncestor( 'table', { includeSelf: true } )
RECURSIVE findAncestorOrSelf(_, _)
findAncestorOrSelf(node, parentName) ==
    IF node = Null THEN Null
    ELSE IF nodeName(node) = parentName THEN node
    ELSE findAncestorOrSelf(getParent(node), parentName)

\* position.findAncestor( parentName )
findAncestor(position, parentName) == findAncestorOrSelf(position.parent, parentName)

\* The nodes model.createRangeOn( node ).getItems() yields: the node and
\* everything inside it.
RECURSIVE getItems(_)
getItems(node) ==
    {node} \cup UNION {getItems(getChildren(node)[i]) : i \in DOMAIN getChildren(node)}

----------------------------------------------------------------------------
(* Affected-table locator *)

TableElementNames == {"table", "tableRow", "tableCell"}

\* 'remove' also accepts a whole table.
getReferencePositionRemoveTable(change) ==
    CASE change.type = "insert" ->
            IF change.name \in TableElementNames THEN change.position ELSE NullPosition
      [] change.type = "remove" ->
            IF change.name \in TableElementNames THEN change.position ELSE NullPosition
      [] change.type = "attribute" ->
            IF nodeAfter(change.position) # Null
               /\ nodeName(nodeAfter(change.position)) \in TableElementNames
            THEN change.position
            ELSE NullPosition
      [] OTHER -> NullPosition

\* The switch of getAffectedTables: the reference position of a change, or
\* NullPosition.  For an 'attribute' change, position is change.range.start.
getReferencePosition(change) ==
    CASE change.type = "insert" ->
            IF change.name \in TableElementNames THEN change.position ELSE NullPosition
      [] change.type = "remove" ->
            IF change.name \in {"tableRow", "tableCell"} THEN change.position ELSE NullPosition
      [] change.type = "attribute" ->
            IF nodeAfter(change.position) # Null
               /\ nodeName(nodeAfter(change.position)) \in TableElementNames
            THEN change.position
            ELSE NullPosition
      [] OTHER -> NullPosition

getTableNode(referencePosition) ==
    IF nodeAfter(referencePosition) # Null /\ nodeName(nodeAfter(referencePosition)) = "table"
    THEN nodeAfter(referencePosition)
    ELSE findAncestor(referencePosition, "table")

\* Looks at the table itself only.
collectTablesShallow(tableNode, withWidths) ==
    {node \in {tableNode} : nodeName(node) = "table" /\ node \in withWidths}

\* The inner loop of getAffectedTables.
collectTables(tableNode, withWidths) ==
    {node \in getItems(tableNode) : nodeName(node) = "table" /\ node \in withWidths}

getAffectedTables(changeList, withWidths) ==
    UNION { IF getReferencePosition(changeList[i]) = NullPosition
            THEN {}
            ELSE collectTables(getTableNode(getReferencePosition(changeList[i])), withWidths)
          : i \in DOMAIN changeList }

\* The elements the schema allows directly inside a node.
AllowedIn(node) ==
    CASE nodeName(node) = "table" -> {"tableRow"}
      [] nodeName(node) = "tableRow" -> {"tableCell"}
      [] nodeName(node) = "paragraph" -> {"$text"}
      [] OTHER -> {"table", "paragraph"}

\* The records the differ can report for this document.
InsertRecords ==
    {[type |-> "insert", name |-> nodeName(nodeAfter(p)), position |-> p] :
        p \in {q \in Positions : nodeAfter(q) # Null}}
RemoveRecords ==
    UNION {{[type |-> "remove", name |-> n, position |-> p] : n \in AllowedIn(p.parent)} :
        p \in {q \in Positions : q.offset = 0}}
AttributeRecords ==
    {[type |-> "attribute", name |-> Null, position |-> p] :
        p \in {q \in Positions : q.offset <= Len(getChildren(q.parent))}}

ChangeRecords == InsertRecords \cup RemoveRecords \cup AttributeRecords

ChangeLists == UNION {[1..n -> ChangeRecords] : n \in 0..MaxChanges}

TablesIdle ==
    /\ tablesWithWidths = {}
    /\ changes = <<>>
    /\ affectedTables = {}

InitTables ==
    /\ phase = "changed"
    /\ tablesWithWidths \in SUBSET Tables
    /\ changes \in ChangeLists
    /\ affectedTables = {}

GetAffectedTables ==
    /\ phase = "changed"
    /\ affectedTables' = getAffectedTables(changes, tablesWithWidths)
    /\ phase' = "located"
    /\ UNCHANGED <<tablesWithWidths, changes>>

----------------------------------------------------------------------------
(* Specifications *)

NormInit   == InitNormalize /\ ClampIdle /\ TablesIdle /\ ResizerIdle
NormNext   ==
    \/ Normalize /\ UNCHANGED <<clampVars, tableVars, resizerVars>>
    \/ Renormalize /\ UNCHANGED <<clampVars, tableVars, resizerVars>>
SpecNormalize == NormInit /\ [][NormNext]_vars

ClampInit  == InitClamp /\ NormIdle /\ TablesIdle /\ ResizerIdle
ClampNext  == Clamp /\ UNCHANGED <<normVars, tableVars, resizerVars>>
SpecClamp  == ClampInit /\ [][ClampNext]_vars

TablesInit == InitTables /\ NormIdle /\ ClampIdle /\ ResizerIdle
TablesNext == GetAffectedTables /\ UNCHANGED <<normVars, clampVars, resizerVars>>
SpecTables == TablesInit /\ [][TablesNext]_vars

ResizerInit == InitResizer /\ NormIdle /\ ClampIdle /\ TablesIdle
ResizerNext == InsertResizer /\ UNCHANGED <<normVars, clampVars, tableVars>>
SpecResizer == ResizerInit /\ [][ResizerNext]_vars

----------------------------------------------------------------------------
(* Properties of the width normaliser (SpecNormalize) *)

IsAuto(s) == trim(s).str = "auto"

AutoColumns == {i \in DOMAIN widthsAttribute : IsAuto(widthsAttribute[i])}

AllNumbers(array) == \A i \in DOMAIN array : ~IsNaN(array[i])

\* C1: for every raw list of length >= 1 of non-negative percentages and
\* 'auto' placeholders, the normalised list sums to exactly 100 and every
\* entry of it is a number (no placeholder is left).
C1_SumIsHundred ==
    phase \in {"normalized", "renormalized"} =>
        /\ Len(normalized) = Len(widthsAttribute)
        /\ AllNumbers(normalized)
        /\ sumArray(normalized) = Hundred

\* C2: normalising the normalised list (written back as strings) returns the
\* same list, element by element.
C2_Idempotent ==
    phase = "renormalized" => renormalized = normalized

C2_Witness ==
    /\ phase = "renormalized"
    /\ Len(normalized) >= 2
    /\ AllNumbers(normalized)
    /\ sumArray(missing) # Hundred
    /\ normalized # missing
    /\ renormalized = normalized

\* C3: a list of one column, placeholder or numeric, normalises to [100].
C3_SingleColumn ==
    (phase \in {"normalized", "renormalized"} /\ Len(widthsAttribute) = 1) =>
        normalized = <<Hundred>>

\* C4: the width substituted for every 'auto' column before the rescale is
\* max((100 - sum of the non-auto entries) / number of 'auto' entries,
\* COLUMN_MIN_WIDTH_AS_PERCENTAGE) at the kept precision, hence never below
\* the minimum; ['90', 'auto', 'auto'] normalises to a list that sums to 100
\* whose two placeholder columns are no smaller than the minimum.
C4_FairShareFloor ==
    phase \in {"normalized", "renormalized"} =>
        /\ \A i \in AutoColumns :
              /\ missing[i] = RoundQuotient(
                                  Max(Hundred - sumStrings(widthsAttribute),
                                      COLUMN_MIN_WIDTH_AS_PERCENTAGE * Cardinality(AutoColumns)),
                                  Cardinality(AutoColumns))
              /\ missing[i] >= COLUMN_MIN_WIDTH_AS_PERCENTAGE
        /\ widthsAttribute = <<NumberString(90 * Scale), AutoString, AutoString>> =>
              /\ normalized[2] >= COLUMN_MIN_WIDTH_AS_PERCENTAGE
              /\ normalized[3] >= COLUMN_MIN_WIDTH_AS_PERCENTAGE
              /\ sumArray(normalized) = Hundred

\* An over-subscribed list: nothing remains for the placeholder, which gets
\* the minimum.
C4_Witness ==
    /\ phase = "normalized"
    /\ AutoColumns # {}
    /\ Hundred - sumStrings(widthsAttribute) < 0
    /\ \A i \in AutoColumns : missing[i] = COLUMN_MIN_WIDTH_AS_PERCENTAGE

\* C5: a list of n 'auto' entries normalises to n entries that sum to 100,
\* each equal to 100 / n at the kept precision except that the last also
\* takes the rounding correction; four placeholders give four times 25.
C5_AllAuto ==
    (phase \in {"normalized", "renormalized"} /\ AutoColumns = DOMAIN widthsAttribute) =>
        LET n     == Len(widthsAttribute)
            share == RoundQuotient(Hundred, n)
        IN  /\ Len(normalized) = n
            /\ sumArray(normalized) = Hundred
            /\ \A i \in 1..(n - 1) : normalized[i] = share
            /\ normalized[n] = share + (Hundred - n * share)
            /\ n = 4 => normalized = <<25 * Scale, 25 * Scale, 25 * Scale, 25 * Scale>>

C5_Witness ==
    /\ phase = "normalized"
    /\ AutoColumns = DOMAIN widthsAttribute
    /\ Len(widthsAttribute) = 3
    /\ normalized[1] = 333330
    /\ normalized[3] = 333340

\* C10: when the resolved widths sum to 100 they are returned unchanged;
\* otherwise every column but the last is its width times 100 / totalWidth,
\* rounded, and the last alone also takes 100 minus the sum of the rounded
\* columns.
C10_OnlyLastCorrected ==
    phase \in {"normalized", "renormalized"} =>
        LET totalWidth == sumArray(missing)
            n          == Len(missing)
            scaled     == [i \in DOMAIN missing |-> Proportional(missing[i], totalWidth)]
        IN  IF totalWidth = Hundred
            THEN normalized = missing
            ELSE /\ \A i \in 1..(n - 1) : normalized[i] = scaled[i]
                 /\ normalized[n] =
                        toPrecision(Minus(Plus(scaled[n], Hundred), sumArray(scaled)))

C10_Witness ==
    /\ phase = "normalized"
    /\ Len(missing) >= 2
    /\ AllNumbers(normalized)
    /\ sumArray(missing) # Hundred
    /\ normalized[Len(missing)] # Proportional(missing[Len(missing)], sumArray(missing))
    /\ normalized[1] = Proportional(missing[1], sumArray(missing))

----------------------------------------------------------------------------
(* Properties of clamp (SpecClamp) *)

\* C9: clamp returns min when number <= min, else max when number >= max,
\* else number, in every case rounded to the kept precision;
\* clamp(5, 10, 90) = 10, clamp(95, 10, 90) = 90, clamp(50, 10, 90) = 50.
C9_Clamp ==
    phase = "clamped" =>
        LET chosen == IF clampArgs.number <= clampArgs.min THEN clampArgs.min
                      ELSE IF clampArgs.number >= clampArgs.max THEN clampArgs.max
                      ELSE clampArgs.number
        IN  /\ clampResult % Step = 0
            /\ 2 * (clampResult - chosen) <= Step
            /\ 2 * (chosen - clampResult) < Step
            /\ (clampArgs.min = 10 * Scale /\ clampArgs.max = 90 * Scale) =>
                  /\ clampArgs.number = 5 * Scale => clampResult = 10 * Scale
                  /\ clampArgs.number = 95 * Scale => clampResult = 90 * Scale
                  /\ clampArgs.number = 50 * Scale => clampResult = 50 * Scale

\* clamp(12.3456, 10, 90) = 12.346
C9_Witness ==
    /\ phase = "clamped"
    /\ clampArgs = [number |-> 123456, min |-> 10 * Scale, max |-> 90 * Scale]
    /\ clampResult = 123460

----------------------------------------------------------------------------
(* Properties of getAffectedTables (SpecTables) *)

\* A change from which no reference position is derived.
YieldsNoPosition(change) ==
    \/ change.type = "insert" /\ change.name \notin {"table", "tableRow", "tableCell"}
    \/ change.type = "remove" /\ change.name \notin {"tableRow", "tableCell"}
    \/ change.type = "attribute"
         /\ \/ nodeAfter(change.position) = Null
            \/ nodeName(nodeAfter(change.position)) \notin {"table", "tableRow", "tableCell"}

RECURSIVE IsInside(_, _)
IsInside(node, ancestor) ==
    IF node = Null THEN FALSE
    ELSE node = ancestor \/ IsInside(getParent(node), ancestor)

\* C6: a batch none of whose records yields a reference position gives the
\* empty set; so does the batch whose only record removes a whole table,
\* whether or not that table carried columnWidths.
C6_NoPositionNoTables ==
    phase = "located" =>
        /\ (\A i \in DOMAIN changes : YieldsNoPosition(changes[i])) => affectedTables = {}
        /\ (Len(changes) = 1 /\ changes[1].type = "remove" /\ changes[1].name = "table") =>
              affectedTables = {}

\* A table with columnWidths stood at the place of T1 and was removed.
C6_Witness ==
    /\ phase = "located"
    /\ changes = <<[type |-> "remove", name |-> "table",
                    position |-> [parent |-> "root", offset |-> 0]]>>
    /\ "T1" \in tablesWithWidths
    /\ affectedTables = {}

\* C7: for the batch of one record that inserts a row into a table, the
\* result is exactly the tables with columnWidths among that table and the
\* tables nested in it at any depth; no table without columnWidths is ever
\* returned.
C7_NestedTables ==
    phase = "located" =>
        /\ affectedTables \subseteq tablesWithWidths
        /\ (Len(changes) = 1 /\ changes[1].type = "insert" /\ changes[1].name = "tableRow") =>
              affectedTables =
                  {t \in Tables : IsInside(t, changes[1].position.parent) /\ t \in tablesWithWidths}

\* A row inserted into T1, whose nested T2 carries columnWidths too.
C7_Witness ==
    /\ phase = "located"
    /\ changes = <<[type |-> "insert", name |-> "tableRow",
                    position |-> [parent |-> "T1", offset |-> 0]]>>
    /\ tablesWithWidths = {"T1", "T2", "T4"}
    /\ affectedTables = {"T1", "T2"}

----------------------------------------------------------------------------
(* Properties of insertColumnResizerElement (SpecResizer) *)

AtMostOneResizer ==
    \A c \in Cells :
        /\ ResizerCount(viewChildren[c]) <= 1
        /\ c \in targeted => ResizerCount(viewChildren[c]) = 1

ResizerKept ==
    \A c \in Cells :
        ResizerCount(viewChildren[c]) = 1 => viewChildren'[c] = viewChildren[c]

\* C8: whatever the calls, no cell holds more than one marker, every cell
\* that was the target of a call holds exactly one, and a call on a cell
\* that has a marker leaves its children as they are.
C8_OneResizerPerCell == []AtMostOneResizer /\ [][ResizerKept]_vars

C8_Witness ==
    /\ targeted = Cells
    /\ \A c \in Cells : ResizerCount(viewChildren[c]) = 1
    /\ \E c \in Cells : viewChildren[c] = <<ContentElement, ResizerElement>>
    /\ \E c \in Cells : viewChildren[c] = <<ResizerElement, ContentElement>>

====
